---- MODULE Spec2Model ----
(***************************************************************************)
(* Model of scripts/fetch_streamelements_data.py: the leaderboard          *)
(* formatter, the marathon day calculator, the fetchers' result handling,  *)
(* and main(), which merges the fetched values with the persisted          *)
(* stats.json and ensures the day's record in daily.json.                  *)
(*                                                                         *)
(* JSON values: an object is a function on its keys (so "key in dict" is   *)
(* key \in DOMAIN), a list is a sequence, a number is [type, v] where a    *)
(* float carries its value in units of 1/Scale.  A value that may be None  *)
(* is <<>> (None) or <<x>>.  Response texts are sequences of characters.   *)
(***************************************************************************)
EXTENDS Integers, Sequences, FiniteSets, TLC

VARIABLES
    now,          \* the UTC clock, in ticks since MARATHON_START
    stats_file,   \* data/stats.json: <<>> (no file) or <<document>>
    daily_file,   \* data/daily.json: <<>> (no file) or <<mapping>>
    fetched,      \* the responses the last run of main() received
    outcome,      \* what the last step was
    outside,      \* whether another process has written stats.json
    current_day,  \* calculate_marathon_day()'s last return value (0: none yet)
    users,        \* format_leaderboard's argument
    leaderboard,  \* format_leaderboard's list before sorting
    formatted,    \* format_leaderboard's return value
    calls         \* number of format_leaderboard calls made

vars == <<now, stats_file, daily_file, fetched, outcome, outside, current_day,
          users, leaderboard, formatted, calls>>

mainVars == <<now, stats_file, daily_file, fetched, outcome, outside, current_day>>
fmtVars == <<users, leaderboard, formatted, calls>>

----------------------------------------------------------------------------
(* Bounds of the model *)

MaxUsers == 2        \* longest list given to format_leaderboard
MaxAmount == 2       \* largest integer amount in a raw record
Scale == 2           \* a float amount is a multiple of 1/Scale
TicksPerDay == 2     \* clock ticks in a day
DaysBefore == 1      \* the clock starts this many days before MARATHON_START
DaysAfter == 2       \* and ends this many days after the 28th day began
MaxFollowers == 2    \* largest follower count a response reports
MaxOutside == 1      \* largest value another process writes to stats.json
WindowDays == 1      \* days of the daily log's clock after the start, and before day 28

(* Constants of the program *)

MarathonStart == 0   \* MARATHON_START, the origin of the clock
MarathonDays == 28   \* the upper clamp of calculate_marathon_day
TopN == 10           \* the [:10] slice of get_streamelements_top_data
HttpOk == 200        \* the status code the fetchers accept

----------------------------------------------------------------------------
(* JSON helpers *)

None == <<>>
Some(x) == <<x>>

Int_(n) == [type |-> "int", v |-> n]
Float_(h) == [type |-> "float", v |-> h]
Bool_(b) == [type |-> "bool", v |-> IF b THEN 1 ELSE 0]
Str_ == [type |-> "str", v |-> 0]
Null_ == [type |-> "null", v |-> 0]

\* dict.get(key, default)
Get(d, key, default) == IF key \in DOMAIN d THEN d[key] ELSE default

\* d.get(key) used as a condition: absent (None) and "" are falsy
Truthy(d, key) == key \in DOMAIN d /\ d[key] # ""

----------------------------------------------------------------------------
(* format_leaderboard *)

\* user.get('name') or user.get('username') or 'Unknown'
UsernameOf(user) ==
    IF Truthy(user, "name") THEN user["name"]
    ELSE IF Truthy(user, "username") THEN user["username"]
    ELSE "Unknown"

\* isinstance(amount, (int, float)): bool is a subclass of int
IsNumber(a) == a.type \in {"int", "float", "bool"}

\* amount > 0
Positive(a) == a.v > 0

\* int(amount): truncation toward zero
IntOf(a) ==
    IF a.type = "float"
    THEN (IF a.v >= 0 THEN a.v \div Scale ELSE -((-a.v) \div Scale))
    ELSE a.v

\* the condition of line 107
Keeps(user, amount_key) ==
    LET amount == Get(user, amount_key, Int_(0))
    IN  IsNumber(amount) /\ Positive(amount)

EntryOf(user, amount_key) ==
    [username |-> UsernameOf(user),
     amount |-> Int_(IntOf(Get(user, amount_key, Int_(0))))]

\* the for loop: the entries appended, in encounter order
RECURSIVE Collect(_, _)
Collect(us, amount_key) ==
    IF us = <<>> THEN <<>>
    ELSE LET rest == Collect(Tail(us), amount_key)
         IN  IF Keeps(Head(us), amount_key)
             THEN <<EntryOf(Head(us), amount_key)>> \o rest
             ELSE rest

\* InsertDesc as an unstable sort would do it: e goes before the entries of
\* equal amount (C10 must tell the two apart)
RECURSIVE InsertDescTiesFirst(_, _)
InsertDescTiesFirst(s, e) ==
    IF s = <<>> THEN <<e>>
    ELSE IF Head(s).amount.v > e.amount.v
         THEN <<Head(s)>> \o InsertDescTiesFirst(Tail(s), e)
         ELSE <<e>> \o s

\* where a stable descending sort puts e among the already sorted s:
\* after every entry whose amount is >= e's
RECURSIVE InsertDesc(_, _)
InsertDesc(s, e) ==
    IF s = <<>> THEN <<e>>
    ELSE IF Head(s).amount.v >= e.amount.v
         THEN <<Head(s)>> \o InsertDesc(Tail(s), e)
         ELSE <<e>> \o s

\* sorted(leaderboard, key=lambda x: x['amount'], reverse=True)
RECURSIVE SortedDesc(_)
SortedDesc(s) ==
    IF s = <<>> THEN <<>>
    ELSE InsertDesc(SortedDesc(SubSeq(s, 1, Len(s) - 1)), s[Len(s)])

format_leaderboard(us, amount_key) == SortedDesc(Collect(us, amount_key))

----------------------------------------------------------------------------
(* Inputs of format_leaderboard *)

RawAmounts ==
    {Int_(n) : n \in -1..MaxAmount}
    \cup {Float_(h) : h \in -1..(Scale + 1)}
    \cup {Str_, Null_, Bool_(TRUE)}

RawUsers ==
    {[name |-> n, amount |-> a] : n \in {"a", "b"}, a \in RawAmounts}
    \cup {[name |-> n] : n \in {"a", "b"}}
    \cup {[amount |-> Int_(1)],
          [username |-> "c", amount |-> Int_(1)],
          [name |-> "", username |-> "c", amount |-> Int_(1)]}

SeqsUpTo(S, n) == UNION {[1..k -> S] : k \in 0..n}

----------------------------------------------------------------------------
(* Specification of the formatter alone *)

InitFmt ==
    /\ users \in SeqsUpTo(RawUsers, MaxUsers)
    /\ leaderboard = <<>>
    /\ formatted = None
    /\ calls = 0
    /\ now = 0
    /\ stats_file = None
    /\ daily_file = None
    /\ fetched = None
    /\ outcome = "init"
    /\ outside = FALSE
    /\ current_day = 0

\* a call format_leaderboard(users, 'amount')
Format ==
    /\ calls = 0
    /\ leaderboard' = Collect(users, "amount")
    /\ formatted' = Some(format_leaderboard(users, "amount"))
    /\ calls' = 1
    /\ UNCHANGED <<users, mainVars>>

\* the returned list is formatted again
Reformat ==
    /\ calls = 1
    /\ users' = formatted[1]
    /\ leaderboard' = Collect(formatted[1], "amount")
    /\ formatted' = Some(format_leaderboard(formatted[1], "amount"))
    /\ calls' = 2
    /\ UNCHANGED mainVars

NextFmt == Format \/ Reformat

SpecFmt == InitFmt /\ [][NextFmt]_vars

----------------------------------------------------------------------------
(* Text helpers: a text is a sequence of one-character strings *)

Whitespace == {" ", "\n"}
DigitChars == <<"0", "1", "2", "3", "4", "5", "6", "7", "8", "9">>
DigitSet == {DigitChars[i] : i \in 1..10}
DigitValue(c) == (CHOOSE i \in 1..10 : DigitChars[i] = c) - 1

\* str.strip()
RECURSIVE LStrip(_)
LStrip(t) == IF t # <<>> /\ Head(t) \in Whitespace THEN LStrip(Tail(t)) ELSE t
RECURSIVE RStrip(_)
RStrip(t) ==
    IF t # <<>> /\ t[Len(t)] \in Whitespace THEN RStrip(SubSeq(t, 1, Len(t) - 1)) ELSE t
Strip(t) == RStrip(LStrip(t))

\* str.isdigit()
IsDigit(t) == t # <<>> /\ \A i \in 1..Len(t) : t[i] \in DigitSet

\* int(count) of a text of digits
RECURSIVE ParseInt(_)
ParseInt(t) ==
    IF t = <<>> THEN 0
    ELSE 10 * ParseInt(SubSeq(t, 1, Len(t) - 1)) + DigitValue(t[Len(t)])

\* str.lower(), for the letters the responses use
LowerChar(c) ==
    CASE c = "O" -> "o" [] c = "F" -> "f" [] c = "L" -> "l" [] c = "I" -> "i"
      [] c = "N" -> "n" [] c = "E" -> "e" [] OTHER -> c
Lower(t) == [i \in 1..Len(t) |-> LowerChar(t[i])]

\* pat in t
Contains(t, pat) ==
    \E i \in 1..(Len(t) - Len(pat) + 1) : SubSeq(t, i, i + Len(pat) - 1) = pat

OfflineText == <<"o", "f", "f", "l", "i", "n", "e">>

----------------------------------------------------------------------------
(* The fetchers: what each returns for the response r its request got.     *)
(* r.raised: requests.get (or the decoding) raised; otherwise r.status_code *)
(* and r.text or r.json are the response.                                   *)

\* get_streamelements_channel_id without its status check (C3 must tell the
\* two apart)
get_streamelements_channel_id_any_status(r) ==
    IF r.raised THEN None ELSE Some(Strip(r.text))

get_streamelements_channel_id(r) ==
    IF r.raised THEN None
    ELSE IF r.status_code = HttpOk THEN Some(Strip(r.text))
    ELSE None

get_streamelements_stats(r) ==
    IF r.raised THEN None
    ELSE IF r.status_code = HttpOk THEN Some(r.json)
    ELSE None

get_streamelements_top_data(r) ==
    IF r.raised THEN <<>>
    ELSE IF r.status_code = HttpOk
         THEN LET us == Get(r.json, "users", <<>>)
              IN  SubSeq(us, 1, IF Len(us) < TopN THEN Len(us) ELSE TopN)
    ELSE <<>>

get_twitch_follower_count(r) ==
    IF r.raised THEN 0
    ELSE IF r.status_code = HttpOk
         THEN LET count == Strip(r.text)
              IN  IF IsDigit(count) THEN ParseInt(count) ELSE 0
    ELSE 0

get_twitch_live_status(r) ==
    IF r.raised THEN FALSE
    ELSE ~Contains(Lower(Strip(r.text)), OfflineText)

----------------------------------------------------------------------------
(* calculate_marathon_day *)

Max(a, b) == IF a >= b THEN a ELSE b
Min(a, b) == IF a <= b THEN a ELSE b

\* timedelta.days of (t - start): whole days, rounded toward minus infinity
DeltaDays(t) == (t - MarathonStart) \div TicksPerDay

\* calculate_marathon_day without the upper clamp (C9 must tell the two apart)
calculate_marathon_day_unclamped(t) == Max(1, DeltaDays(t) + 1)

calculate_marathon_day(t) == Max(1, Min(MarathonDays, DeltaDays(t) + 1))

\* datetime.isoformat(): the date and the time of day
IsoFormat(t) == [date |-> t \div TicksPerDay, time |-> t % TicksPerDay]

\* strftime('%Y-%m-%d'): the date alone
StrfDate(t) == t \div TicksPerDay

----------------------------------------------------------------------------
(* main *)

\* a value used as a condition: None and an empty dict or text are falsy
Falsy(m) == IF m = None THEN TRUE ELSE m[1] = <<>>

\* dict with key set to val
Put(d, key, val) ==
    [k \in DOMAIN d \cup {key} |-> IF k = key THEN val ELSE d[k]]

\* f"day{current_day}"
DayKey(n) == <<"day", n>>

\* lines 157-162: <<marathon_followers, marathon_start_followers>>
Baseline(existing_stats, follower_count) ==
    IF ~Falsy(existing_stats) /\ "marathonStartFollowers" \in DOMAIN existing_stats[1]
    THEN <<follower_count - existing_stats[1]["marathonStartFollowers"],
           existing_stats[1]["marathonStartFollowers"]>>
    ELSE <<0, follower_count>>

\* line 166
CarriedChatters(existing_stats) ==
    IF ~Falsy(existing_stats) THEN Get(existing_stats[1], "topChatters", <<>>) ELSE <<>>

\* line 182 if it wrote 0 instead of carrying the value (C8 must tell the two
\* apart)
CarriedSubsReset(existing_stats) == 0

\* line 182
CarriedSubs(existing_stats) ==
    IF ~Falsy(existing_stats)
    THEN Get(Get(existing_stats[1], "stats", <<>>), "marathonSubs", 0)
    ELSE 0

\* lines 155-188: the document main() saves to stats.json
NewStats(existing_stats, follower_count, is_live, day, stats_result, top_subs, top_cheers, t_stamp) ==
    LET se_stats == IF Falsy(stats_result) THEN <<>> ELSE stats_result[1]
        base == Baseline(existing_stats, follower_count)
    IN  [lastUpdated |-> IsoFormat(t_stamp),
         marathonStart |-> "2025-10-27T00:00:00Z",
         marathonEnd |-> "2025-11-24T00:00:00Z",
         currentDay |-> day,
         isLive |-> is_live,
         stats |-> [totalFollowers |-> follower_count,
                    marathonFollowers |-> base[1],
                    marathonStartFollowers |-> base[2],
                    totalSubs |-> Get(Get(se_stats, "subscribers", <<>>), "count", 0),
                    marathonSubs |-> CarriedSubs(existing_stats),
                    totalBits |-> Get(Get(se_stats, "cheers", <<>>), "amount", 0)],
         topSubGifters |-> format_leaderboard(top_subs, "amount"),
         topBitDonors |-> format_leaderboard(top_cheers, "amount"),
         topChatters |-> CarriedChatters(existing_stats)]

\* lines 194-203 without the "not in" test: the day's record is written
\* anew by every run (C7 must tell the two apart)
EnsureDayOverwrite(existing_daily, day, t_date) ==
    Put(IF Falsy(existing_daily) THEN <<>> ELSE existing_daily[1], <<"day", day>>,
        [date |-> StrfDate(t_date), subGifters |-> <<>>,
         bitDonors |-> <<>>, chatters |-> <<>>])

\* lines 194-203: the mapping main() saves to daily.json
EnsureDay(existing_daily, day, t_date) ==
    LET daily_data == IF Falsy(existing_daily) THEN <<>> ELSE existing_daily[1]
        day_key == DayKey(day)
    IN  IF day_key \notin DOMAIN daily_data
        THEN Put(daily_data, day_key,
                 [date |-> StrfDate(t_date), subGifters |-> <<>>,
                  bitDonors |-> <<>>, chatters |-> <<>>])
        ELSE daily_data

\* a run of main() that stops at line 124: the channel id is not resolved
MainAborts(env) ==
    \E rc \in env.channel :
        /\ Falsy(get_streamelements_channel_id(rc))
        /\ fetched' = Some([channel |-> rc])
        /\ outcome' = "aborted"
        /\ UNCHANGED <<now, stats_file, daily_file, outside, current_day, fmtVars>>

\* a run of main() to its end.  The clock is read at lines 84, 172 and 199.
MainCompletes(env, clock) ==
    \E rc \in env.channel, rf \in env.followers, rl \in env.live,
       rs \in env.stats, rsub \in env.subscriber, rch \in env.cheer,
       t_stamp \in {t \in clock.times : now <= t /\ t <= now + clock.drift} :
    \E t_date \in {t \in clock.times : t_stamp <= t /\ t <= now + clock.drift} :
        LET day == calculate_marathon_day(now)
        IN  /\ ~Falsy(get_streamelements_channel_id(rc))
            /\ fetched' = Some([channel |-> rc, followers |-> rf, live |-> rl,
                                stats |-> rs, subscriber |-> rsub, cheer |-> rch,
                                t_day |-> now, t_stamp |-> t_stamp, t_date |-> t_date])
            /\ current_day' = day
            /\ stats_file' = Some(NewStats(stats_file,
                                           get_twitch_follower_count(rf),
                                           get_twitch_live_status(rl),
                                           day,
                                           get_streamelements_stats(rs),
                                           get_streamelements_top_data(rsub),
                                           get_streamelements_top_data(rch),
                                           t_stamp))
            /\ daily_file' = Some(EnsureDay(daily_file, day, t_date))
            /\ now' = t_date
            /\ outcome' = "complete"
            /\ UNCHANGED <<outside, fmtVars>>

\* time passes between runs: the clock moves to a later instant
Tick(clock) ==
    /\ \E t \in clock.times : t > now /\ now' = t
    /\ outcome' = "tick"
    /\ UNCHANGED <<stats_file, daily_file, fetched, outside, current_day, fmtVars>>

InitMain ==
    /\ stats_file = None
    /\ daily_file = None
    /\ fetched = None
    /\ outcome = "init"
    /\ outside = FALSE
    /\ current_day = 0
    /\ users = <<>>
    /\ leaderboard = <<>>
    /\ formatted = None
    /\ calls = 0

----------------------------------------------------------------------------
(* Responses *)

Raised == [raised |-> TRUE, status_code |-> 0, text |-> <<>>, json |-> <<>>]
Text(code, t) == [raised |-> FALSE, status_code |-> code, text |-> t, json |-> <<>>]
Json(code, j) == [raised |-> FALSE, status_code |-> code, text |-> <<>>, json |-> j]

\* one well-formed response of each kind
GoodChannel == Text(HttpOk, <<"7", "\n">>)
GoodFollowers == Text(HttpOk, <<"1">>)
GoodLive == Text(HttpOk, <<"3", "h">>)
GoodStats == Json(HttpOk, [subscribers |-> [count |-> 5], cheers |-> [amount |-> 9]])
GoodTop == Json(HttpOk, [users |-> <<[name |-> "a", amount |-> Int_(1)],
                                     [name |-> "b", amount |-> Int_(2)]>>])

----------------------------------------------------------------------------
(* Specification of the day calculator: main() run at any time of the      *)
(* clock's range, every fetch answered well                                *)

ClockFirst == MarathonStart - DaysBefore * TicksPerDay
ClockLast == MarathonStart + (MarathonDays - 1 + DaysAfter) * TicksPerDay

DayEnv == [channel |-> {GoodChannel, Raised}, followers |-> {GoodFollowers},
           live |-> {GoodLive}, stats |-> {GoodStats},
           subscriber |-> {GoodTop}, cheer |-> {GoodTop}]
DayClock == [drift |-> 0, times |-> ClockFirst..ClockLast]

InitDay == InitMain /\ now \in ClockFirst..ClockLast

NextDay == MainAborts(DayEnv) \/ MainCompletes(DayEnv, DayClock)

SpecDay == InitDay /\ [][NextDay]_vars

----------------------------------------------------------------------------
(* Another process writing stats.json between runs (the pass-through       *)
(* fields are reserved for it)                                             *)

OutsideChatters == <<[username |-> "x", amount |-> Int_(5)]>>

\* the documents another process may leave in place of the current one
OutsideDocs ==
    {[marathonStartFollowers |-> b] : b \in 1..MaxOutside}
    \cup {[topChatters |-> OutsideChatters]}
    \cup (IF stats_file = None THEN {}
          ELSE {Put(stats_file[1], "topChatters", OutsideChatters)})
    \cup (IF stats_file = None \/ "stats" \notin DOMAIN stats_file[1] THEN {}
          ELSE {Put(stats_file[1], "stats",
                    Put(stats_file[1]["stats"], "marathonSubs", m)) :
                m \in 1..MaxOutside})

OutsideWrite ==
    /\ \E doc \in OutsideDocs : stats_file' = Some(doc)
    /\ outside' = TRUE
    /\ outcome' = "outside"
    /\ UNCHANGED <<now, daily_file, fetched, current_day, fmtVars>>

----------------------------------------------------------------------------
(* Specification of the merge: runs of main() over a short stretch of time, *)
(* with every way the channel id can fail, any follower count, and another  *)
(* process that writes stats.json                                           *)

RunEnv == [channel |-> {GoodChannel, Raised, Text(404, <<"n", "o">>), Text(HttpOk, <<" ">>)},
           followers |-> {Raised} \cup {Text(HttpOk, <<DigitChars[n + 1]>>) : n \in 0..MaxFollowers},
           live |-> {GoodLive}, stats |-> {GoodStats},
           subscriber |-> {GoodTop}, cheer |-> {Json(HttpOk, [users |-> <<>>])}]
RunClock == [drift |-> 1, times |-> MarathonStart..(MarathonStart + TicksPerDay)]

Init == InitMain /\ now = MarathonStart

Next ==
    \/ MainAborts(RunEnv)
    \/ MainCompletes(RunEnv, RunClock)
    \/ Tick(RunClock)
    \/ OutsideWrite

Spec == Init /\ [][Next]_vars

----------------------------------------------------------------------------
(* Specification of the fetches: runs of main() at one instant, each fetch  *)
(* answered well or failing in each of its ways                             *)

FetchEnv ==
    [channel |-> {GoodChannel, Raised},
     followers |-> {GoodFollowers, Raised, Text(503, <<"1">>), Text(HttpOk, <<"x">>),
                    Text(HttpOk, <<" ", "1", "2", "\n">>)},
     live |-> {GoodLive, Raised, Text(HttpOk, <<"O", "f", "f", "l", "i", "n", "e", "\n">>),
               Text(503, <<"e", "r", "r">>)},
     stats |-> {GoodStats, Raised, Json(500, GoodStats.json), Json(HttpOk, <<>>)},
     subscriber |-> {GoodTop, Raised, Json(404, GoodTop.json)},
     cheer |-> {GoodTop, Json(404, <<>>)}]
FetchClock == [drift |-> 0, times |-> {MarathonStart}]

NextFetch == MainAborts(FetchEnv) \/ MainCompletes(FetchEnv, FetchClock)

SpecFetch == Init /\ [][NextFetch]_vars

----------------------------------------------------------------------------
(* Specification of the daily log: runs of main() over the days around the  *)
(* start and around the end of the marathon, every fetch answered well      *)

DailyTimes ==
    ClockFirst..(MarathonStart + WindowDays * TicksPerDay)
    \cup (MarathonStart + (MarathonDays - 1 - WindowDays) * TicksPerDay)..ClockLast
DailyClock == [drift |-> 1, times |-> DailyTimes]

InitDaily == InitMain /\ now = ClockFirst

NextDaily ==
    \/ MainAborts(DayEnv)
    \/ MainCompletes(DayEnv, DailyClock)
    \/ Tick(DailyClock)

SpecDaily == InitDaily /\ [][NextDaily]_vars

----------------------------------------------------------------------------
(* Properties *)

StatsDoc == stats_file[1]
DailyLog(f) == IF f = None THEN <<>> ELSE f[1]
RunFailed(r) == r.raised \/ r.status_code # 200

\* the baseline a stats document records
HasBaseline(doc) ==
    \/ "marathonStartFollowers" \in DOMAIN doc
    \/ ("stats" \in DOMAIN doc /\ "marathonStartFollowers" \in DOMAIN doc["stats"])
BaselineOf(doc) ==
    IF "marathonStartFollowers" \in DOMAIN doc THEN doc["marathonStartFollowers"]
    ELSE doc["stats"]["marathonStartFollowers"]

\* the pass-through fields of stats.json, with their defaults
SubsOf(f) ==
    IF f # None /\ "stats" \in DOMAIN f[1] /\ "marathonSubs" \in DOMAIN f[1]["stats"]
    THEN f[1]["stats"]["marathonSubs"] ELSE 0
ChattersOf(f) ==
    IF f # None /\ "topChatters" \in DOMAIN f[1] THEN f[1]["topChatters"] ELSE <<>>

\* C1: with no other writer, the first run sets marathonStartFollowers to the
\* follower count it observed and every later run writes the value the
\* previous run wrote.
C1_BaselineFixed ==
    [][(outcome' = "complete" /\ ~outside') =>
         IF stats_file = None
         THEN stats_file'[1].stats.marathonStartFollowers
                = stats_file'[1].stats.totalFollowers
         ELSE stats_file'[1].stats.marathonStartFollowers
                = stats_file[1].stats.marathonStartFollowers]_vars

\* C2: a run whose prior document records the baseline B and whose fresh
\* follower count is F writes marathonFollowers = F - B.
C2_DeltaFromBaseline ==
    [][(outcome' = "complete" /\ stats_file # None /\ HasBaseline(stats_file[1])) =>
         stats_file'[1].stats.marathonFollowers
           = stats_file'[1].stats.totalFollowers - BaselineOf(stats_file[1])]_vars

\* C3: a run whose channel-id request raised, was answered with a status
\* other than 200, or returned an empty identifier ends early and leaves
\* stats.json and daily.json as they were.
C3_AbortWritesNothing ==
    [][(outcome' \in {"aborted", "complete"}
        /\ (RunFailed(fetched'[1].channel) \/ Strip(fetched'[1].channel.text) = <<>>)) =>
         (outcome' = "aborted" /\ stats_file' = stats_file /\ daily_file' = daily_file)]_vars

C3_Witness ==
    /\ outcome = "aborted"
    /\ fetched[1].channel.status_code = 404
    /\ stats_file # None
    /\ daily_file # None

\* C4: in a completed run each failed fetch (raised or not answered 200)
\* contributes its default: 0 followers, live flag false, zero totals, an
\* empty leaderboard; and both files are written.
C4_FailedFetchDefaults ==
    outcome = "complete" =>
        /\ stats_file # None /\ daily_file # None
        /\ RunFailed(fetched[1].followers) => StatsDoc.stats.totalFollowers = 0
        /\ RunFailed(fetched[1].live) => StatsDoc.isLive = FALSE
        /\ RunFailed(fetched[1].stats) =>
               (StatsDoc.stats.totalSubs = 0 /\ StatsDoc.stats.totalBits = 0)
        /\ RunFailed(fetched[1].subscriber) => StatsDoc.topSubGifters = <<>>
        /\ RunFailed(fetched[1].cheer) => StatsDoc.topBitDonors = <<>>

\* C5: every entry format_leaderboard returns has an integer amount > 0, and
\* a record whose amount is not a number produces no entry.
C5_AmountsPositive ==
    calls = 1 =>
        /\ \A i \in 1..Len(formatted[1]) :
               formatted[1][i].amount.type = "int" /\ formatted[1][i].amount.v > 0
        /\ Len(formatted[1]) <=
               Cardinality({i \in 1..Len(users) :
                   /\ "amount" \in DOMAIN users[i]
                   /\ users[i]["amount"].type \in {"int", "float"}})

\* C6: formatting the list format_leaderboard returned yields the same list.
C6_Idempotent == calls = 2 => formatted[1] = users

\* C10: the returned list is the kept entries in descending order of amount,
\* entries of equal amount in the order their records had in the input.
C10_SortedStable ==
    calls >= 1 =>
        /\ Len(formatted[1]) = Len(leaderboard)
        /\ \A i \in 1..(Len(formatted[1]) - 1) :
               formatted[1][i].amount.v >= formatted[1][i + 1].amount.v
        /\ \A a \in {leaderboard[i].amount.v : i \in 1..Len(leaderboard)} :
               SelectSeq(formatted[1], LAMBDA e : e.amount.v = a)
                 = SelectSeq(leaderboard, LAMBDA e : e.amount.v = a)

C10_Witness ==
    /\ calls = 1
    /\ Len(formatted[1]) = 2
    /\ formatted[1][1].amount.v = formatted[1][2].amount.v
    /\ formatted[1][1].username # formatted[1][2].username

C7_Step ==
    LET old == DailyLog(daily_file)
        new == DailyLog(daily_file')
    IN  /\ \A k \in DOMAIN old : k \in DOMAIN new /\ new[k] = old[k]
        /\ DOMAIN new \ DOMAIN old \subseteq {<<"day", current_day'>>}
        /\ (<<"day", current_day'>> \in DOMAIN old => new = old)
        /\ Cardinality(DOMAIN new) >= Cardinality(DOMAIN old)
C7_Keys ==
    /\ DOMAIN DailyLog(daily_file) \subseteq {<<"day", n>> : n \in 1..28}
    /\ Cardinality(DOMAIN DailyLog(daily_file)) <= 28

\* C7: a run keeps every record of the daily log as it is, adds at most the
\* key of the current day and only when it is absent (so ensuring a day that
\* is there changes nothing), and the log's keys, growing from none, are
\* among day1..day28.
C7_DailyLogGrowsOnly == [][C7_Step]_vars /\ []C7_Keys

C7_Witness ==
    /\ outcome = "complete"
    /\ Cardinality(DOMAIN DailyLog(daily_file)) >= 3
    /\ DailyLog(daily_file)[<<"day", current_day>>].date # fetched[1].t_date \div TicksPerDay

C8_Step ==
    /\ outcome' \in {"complete", "aborted"} =>
           /\ SubsOf(stats_file') = SubsOf(stats_file)
           /\ ChattersOf(stats_file') = ChattersOf(stats_file)
    /\ outcome' = "complete" =>
           /\ stats_file'[1].stats.marathonSubs = SubsOf(stats_file)
           /\ stats_file'[1].topChatters = ChattersOf(stats_file)
C8_NoWriter == ~outside => (SubsOf(stats_file) = 0 /\ ChattersOf(stats_file) = <<>>)

\* C8: a completed run writes the marathonSubs and topChatters of the prior
\* document (0 and the empty list when absent); no run changes them, so they
\* stay 0 and empty until another process writes them, and what it wrote
\* survives every later run.
C8_PassThrough == [][C8_Step]_vars /\ []C8_NoWriter

C8_Witness ==
    /\ outcome = "complete"
    /\ outside
    /\ StatsDoc.stats.marathonSubs > 0
    /\ StatsDoc.topChatters # <<>>

\* C9: the day main() computes and writes is 1 until the first day has
\* passed, 28 from start + 27 days on, and in between the number of the day
\* the clock is in: always in 1..28.
C9_DayClamped ==
    outcome = "complete" =>
        LET t == fetched[1].t_day - MarathonStart
            d == StatsDoc.currentDay
        IN  /\ d = current_day
            /\ d \in 1..28
            /\ t <= 0 => d = 1
            /\ t >= 27 * TicksPerDay => d = 28
            /\ (0 <= t /\ t < 27 * TicksPerDay) =>
                   ((d - 1) * TicksPerDay <= t /\ t < d * TicksPerDay)

C9_Witness ==
    /\ outcome = "complete"
    /\ fetched[1].t_day >= MarathonStart + 29 * TicksPerDay
    /\ StatsDoc.currentDay = 28

====
